---- MODULE Spec2Model ----
(***************************************************************************)
(* Order validation and margin computation of the exchange messages:       *)
(* signature format check, order-type classification, direction / market   *)
(* derivation, margin requirements and the DoesValidationPass pipeline.    *)
(*                                                                         *)
(* Wire values are kept as the program keeps them: amounts are decimal     *)
(* strings and asset data / signatures are hex strings.  A string is a     *)
(* sequence of one-character strings, a byte slice a sequence of 0..255.   *)
(***************************************************************************)
EXTENDS Integers, Sequences, FiniteSets, TLC

VARIABLES order, derivativeMarket, currBlockTime, call, ret, orders, validation

vars == <<order, derivativeMarket, currBlockTime, call, ret, orders, validation>>

-----------------------------------------------------------------------------
(* Bounds of the model *)

\* block timestamps range over 0..MaxTime
MaxTime == 2
\* remaining quantities passed to ComputeOrderMarginHold range over -1..MaxRemaining
MaxRemaining == 2

-----------------------------------------------------------------------------
(* Program constants *)

PERMYRIAD_BASE == 10000
\* common.HashLength
HashLength == 32

\* zeroex.SignatureType
IllegalSignature == 0
InvalidSignature == 1
EIP712Signature == 2
EthSignSignature == 3
WalletSignature == 4
ValidatorSignature == 5
PreSignedSignature == 6
EIP1271WalletSignature == 7

-----------------------------------------------------------------------------
(* math/big *)

Abs(x) == IF x < 0 THEN 0 - x ELSE x

\* big.Int.Quo: the quotient truncated toward zero (y # 0)
Quo(x, y) ==
  LET q == Abs(x) \div Abs(y)
  IN  IF (x < 0) = (y < 0) THEN q ELSE 0 - q

\* big.Int.Div: Euclidean division, the remainder x - y*q is never negative
\* (y # 0; the caller sees a run-time panic for y = 0)
Div(x, y) ==
  LET q == Quo(x, y)
      r == x - y * q
  IN  IF r < 0 THEN (IF y < 0 THEN q + 1 ELSE q - 1) ELSE q

DecDigits == <<"0", "1", "2", "3", "4", "5", "6", "7", "8", "9">>

RECURSIVE NatString(_)
NatString(n) ==
  IF n < 10 THEN <<DecDigits[n + 1]>>
  ELSE NatString(n \div 10) \o <<DecDigits[(n % 10) + 1]>>

\* big.Int.String: the decimal representation, "-" first for a negative value
String(x) == IF x < 0 THEN <<"-">> \o NatString(0 - x) ELSE NatString(x)

DecValue == [c \in {DecDigits[i] : i \in 1..10} |-> (CHOOSE i \in 1..10 : DecDigits[i] = c) - 1]

IsDecDigit(c) == c \in DOMAIN DecValue

RECURSIVE DigitsValue(_, _)
DigitsValue(s, n) ==
  IF n = 0 THEN 0 ELSE 10 * DigitsValue(s, n - 1) + DecValue[s[n]]

\* BigNum(s).Int() for a numeral s
BigNumInt(s) ==
  IF s[1] = "-" THEN 0 - DigitsValue(Tail(s), Len(s) - 1)
  ELSE IF s[1] = "+" THEN DigitsValue(Tail(s), Len(s) - 1)
  ELSE DigitsValue(s, Len(s))

-----------------------------------------------------------------------------
(* go-ethereum common *)

HexLower == <<"0", "1", "2", "3", "4", "5", "6", "7", "8", "9", "a", "b", "c", "d", "e", "f">>
HexUpper == <<"0", "1", "2", "3", "4", "5", "6", "7", "8", "9", "A", "B", "C", "D", "E", "F">>

\* encoding/hex fromHexChar
HexValue ==
  [c \in {HexLower[i] : i \in 1..16} \cup {HexUpper[i] : i \in 1..16} |->
     (CHOOSE i \in 1..16 : HexLower[i] = c \/ HexUpper[i] = c) - 1]

IsHexChar(c) == c \in DOMAIN HexValue

\* hex.DecodeString with the error dropped (common.Hex2Bytes): the bytes decoded
\* before the first pair that is not two hex digits (s has even length)
Hex2Bytes(s) ==
  LET n == Len(s) \div 2
      bad == {i \in 1..n : ~(IsHexChar(s[2 * i - 1]) /\ IsHexChar(s[2 * i]))}
      k == IF bad = {} THEN n ELSE (CHOOSE i \in bad : \A j \in bad : i <= j) - 1
      h == [i \in 1..k |-> 16 * HexValue[s[2 * i - 1]] + HexValue[s[2 * i]]]
  IN  SubSeq(h, 1, k)

has0xPrefix(s) == Len(s) >= 2 /\ s[1] = "0" /\ s[2] \in {"x", "X"}

\* common.FromHex: an optional 0x prefix is dropped, an odd length is padded
\* with a leading "0"
FromHex(s) ==
  LET t == IF has0xPrefix(s) THEN SubSeq(s, 3, Len(s)) ELSE s
      u == IF Len(t) % 2 = 1 THEN <<"0">> \o t ELSE t
  IN  Hex2Bytes(u)

\* common.BytesToHash: the last HashLength bytes, left-padded with zeros
BytesToHash(b) ==
  LET c == IF Len(b) > HashLength THEN SubSeq(b, Len(b) - HashLength + 1, Len(b)) ELSE b
      h == [i \in 1..HashLength |-> IF i <= HashLength - Len(c) THEN 0 ELSE c[i - (HashLength - Len(c))]]
  IN  SubSeq(h, 1, HashLength)

\* common.Hash{}.Bytes()
ZeroHash == SubSeq([i \in 1..HashLength |-> 0], 1, HashLength)

\* common.LeftPadBytes
LeftPadBytes(b, l) ==
  IF l <= Len(b) THEN b
  ELSE SubSeq([i \in 1..l |-> IF i <= l - Len(b) THEN 0 ELSE b[i - (l - Len(b))]], 1, l)

\* big.Int.Bytes: the absolute value, big-endian, no leading zero byte
RECURSIVE IntBytes(_)
IntBytes(x) ==
  LET a == Abs(x)
  IN  IF a = 0 THEN <<>> ELSE IntBytes(a \div 256) \o <<a % 256>>

\* the value of a big-endian byte string (for values TLC's integers hold)
RECURSIVE BytesValueTo(_, _)
BytesValueTo(b, n) ==
  IF n = 0 THEN 0 ELSE 256 * BytesValueTo(b, n - 1) + b[n]

BytesValue(b) == BytesValueTo(b, Len(b))

\* a big-endian magnitude without its leading zero bytes (nat.norm)
Norm(b) ==
  LET nz == {i \in 1..Len(b) : b[i] # 0}
  IN  IF nz = {} THEN <<>>
      ELSE SubSeq(b, CHOOSE i \in nz : \A j \in nz : i <= j, Len(b))

\* big.Int.SetBytes(b).Uint64(): the low 64 bits of the big-endian value of b,
\* kept as a normalized big-endian magnitude of at most 8 bytes
Uint64OfBytes(b) ==
  Norm(IF Len(b) > 8 THEN SubSeq(b, Len(b) - 7, Len(b)) ELSE b)

-----------------------------------------------------------------------------
(* Results of a call *)

Nil == [kind |-> "nil"]
Error(err, format) == [kind |-> "error", err |-> err, format |-> format]
Panic(msg) == [kind |-> "panic", msg |-> msg]
Value(v) == [kind |-> "value", val |-> v]
Bool(b) == [kind |-> "bool", ok |-> b]
Identifiers(isLong, marketID, subaccountID) ==
  [kind |-> "identifiers", isLong |-> isLong, marketID |-> marketID, subaccountID |-> subaccountID]

-----------------------------------------------------------------------------
(* Permyriad scaler *)

\* variant: the rate is read as a percentage
ScalePercent(amount, permyriad) == Div(amount * permyriad, 100)

\* return (amount * permyriad) / 10000
ScalePermyriad(amount, permyriad) == Div(amount * permyriad, PERMYRIAD_BASE)

\* return amount * (1 + permyriad/10000) = (amount + amount * permyriad/10000)
IncrementByScaledPermyriad(amount, permyriad) ==
  amount + ScalePermyriad(amount, permyriad)

-----------------------------------------------------------------------------
(* Signature format *)

\* variant: the switch has no default branch, an unknown tag falls through
isValidSignaturePermitUnknown(sig) ==
  LET signature == FromHex(sig)
  IN  IF Len(signature) = 0 THEN Panic("index out of range [-1]")
      ELSE LET signatureType == signature[Len(signature)]
           IN  CASE signatureType \in {InvalidSignature, IllegalSignature} -> Bool(FALSE)
                 [] signatureType = EIP712Signature -> Bool(Len(signature) = 66)
                 [] signatureType = EthSignSignature -> Bool(Len(signature) = 66)
                 [] signatureType = ValidatorSignature -> Bool(~(Len(signature) < 21))
                 [] OTHER -> Bool(TRUE)

\* isValidSignature(sig): the result, or the panic of indexing an empty slice
isValidSignature(sig) ==
  LET signature == FromHex(sig)
  IN  IF Len(signature) = 0 THEN Panic("index out of range [-1]")
      ELSE LET signatureType == signature[Len(signature)]
           IN  CASE signatureType \in {InvalidSignature, IllegalSignature} -> Bool(FALSE)
                 [] signatureType = EIP712Signature -> Bool(Len(signature) = 66)
                 [] signatureType = EthSignSignature -> Bool(Len(signature) = 66)
                 [] signatureType = ValidatorSignature -> Bool(~(Len(signature) < 21))
                 [] signatureType \in {PreSignedSignature, WalletSignature, EIP1271WalletSignature} -> Bool(TRUE)
                 [] OTHER -> Bool(FALSE)

-----------------------------------------------------------------------------
(* Order type *)

\* variant: the order type is write-once, an order already carrying a type is
\* refused
ComputeAndSetOrderTypeWriteOnce(o, spill) ==
  LET data == FromHex(o.MakerFeeAssetData)
      buf == IF Len(data) < HashLength THEN data \o spill ELSE data
  IN  IF Len(buf) < HashLength
      THEN [order |-> o, ret |-> Panic("slice bounds out of range")]
      ELSE LET orderTypeNumber == Uint64OfBytes(SubSeq(buf, 1, HashLength))
           IN  IF o.OrderType # 0
                  \/ (orderTypeNumber # IntBytes(0) /\ orderTypeNumber # IntBytes(5))
               THEN [order |-> o,
                     ret |-> Error("ErrUnrecognizedOrderType", "Cannot recognize MakerFeeAssetData of %s")]
               ELSE [order |-> [o EXCEPT !.OrderType = BytesValue(orderTypeNumber)], ret |-> Nil]

\* ComputeAndSetOrderType.  `spill` is what the backing array of the decoded
\* MakerFeeAssetData holds between its length and its capacity: slicing
\* [:HashLength] reads it when the data is shorter than HashLength, and panics
\* when the capacity is short too.
ComputeAndSetOrderType(o, spill) ==
  LET data == FromHex(o.MakerFeeAssetData)
      buf == IF Len(data) < HashLength THEN data \o spill ELSE data
  IN  IF Len(buf) < HashLength
      THEN [order |-> o, ret |-> Panic("slice bounds out of range")]
      ELSE LET orderTypeNumber == Uint64OfBytes(SubSeq(buf, 1, HashLength))
           IN  IF orderTypeNumber # IntBytes(0) /\ orderTypeNumber # IntBytes(5)
               THEN [order |-> o,
                     ret |-> Error("ErrUnrecognizedOrderType", "Cannot recognize MakerFeeAssetData of %s")]
               ELSE [order |-> [o EXCEPT !.OrderType = BytesValue(orderTypeNumber)], ret |-> Nil]

-----------------------------------------------------------------------------
(* Margin calculator *)

\* quantity * initialMarginRatio * price
ComputeContractPriceMarginRequirement(o, market) ==
  LET price == BigNumInt(o.MakerAssetAmount)
      quantity == BigNumInt(o.TakerAssetAmount)
      alphaQuantity == ScalePermyriad(quantity, BigNumInt(market.InitialMarginRatio))
  IN  alphaQuantity * price

IndexPriceNum(o, isLong) ==
  LET price == BigNumInt(o.MakerAssetAmount)
      quantity == BigNumInt(o.TakerAssetAmount)
      margin == BigNumInt(o.MakerFee)
      pq == price * quantity
  IN  IF isLong THEN margin - pq ELSE margin + pq

IndexPriceDenom(o, isLong, market) ==
  LET quantity == BigNumInt(o.TakerAssetAmount)
      alphaQuantity == ScalePermyriad(quantity, BigNumInt(market.InitialMarginRatio))
  IN  IF isLong THEN alphaQuantity - quantity ELSE alphaQuantity + quantity

\* ComputeIndexPriceMarginRequirement: the requirement, memoized on the order as
\* a decimal string; big.Int.Div panics on a zero denominator, before the memo
\* is written
ComputeIndexPriceMarginRequirement(o, isLong, market) ==
  LET num == IndexPriceNum(o, isLong)
      denom == IndexPriceDenom(o, isLong, market)
  IN  IF denom = 0
      THEN [order |-> o, ret |-> Panic("division by zero")]
      ELSE LET indexPriceReq == Div(num, denom)
           IN  [order |-> [o EXCEPT !.IndexPriceRequirement = String(indexPriceReq)],
                ret |-> Value(indexPriceReq)]

\* orderMarginHold = 1.0015 * margin * (remainingQuantity) / order.quantity
ComputeOrderMarginHold(o, remainingQuantity, makerTxFeePermyriad) ==
  LET margin == BigNumInt(o.MakerFee)
      scaledMargin == IncrementByScaledPermyriad(margin, makerTxFeePermyriad)
      originalQuantity == BigNumInt(o.TakerAssetAmount)
      numerator == scaledMargin * remainingQuantity
  IN  IF originalQuantity = 0 THEN Panic("division by zero")
      ELSE Value(Div(numerator, originalQuantity))

-----------------------------------------------------------------------------
(* Validation pipeline *)

\* variant: an order expiring at the block time is still live
IsExpiredStrict(orderExpirationTime, blockTime) == orderExpirationTime < blockTime

\* orderExpirationTime.Cmp(blockTime) <= 0
IsExpired(orderExpirationTime, blockTime) == orderExpirationTime <= blockTime

\* variant: a margin equal to the requirement is rejected
IsBelowOrAtContractPriceMargin(margin, contractPriceMarginRequirement) ==
  margin <= contractPriceMarginRequirement

\* margin.Cmp(contractPriceMarginRequirement) < 0
IsBelowContractPriceMargin(margin, contractPriceMarginRequirement) ==
  margin < contractPriceMarginRequirement

\* variant: the comparison the error message prints (indexPrice <= indexPriceReq)
IsLongOverLeveragedInclusive(isLong, indexPrice, indexPriceMarginRequirement) ==
  isLong /\ indexPrice <= indexPriceMarginRequirement

\* isLong && indexPrice.Cmp(indexPriceMarginRequirement) < 0
IsLongOverLeveraged(isLong, indexPrice, indexPriceMarginRequirement) ==
  isLong /\ indexPrice < indexPriceMarginRequirement

\* !isLong && indexPrice.Cmp(indexPriceMarginRequirement) > 0
IsShortOverLeveraged(isLong, indexPrice, indexPriceMarginRequirement) ==
  ~isLong /\ indexPrice > indexPriceMarginRequirement

\* variant: the expiry is checked before the order type is classified
DoesValidationPassExpiryFirst(o, isLong, market, now, spill) ==
  LET typed == ComputeAndSetOrderType(o, spill)
      o1 == typed.order
      margin == BigNumInt(o1.MakerFee)
      indexed == ComputeIndexPriceMarginRequirement(o1, isLong, market)
      indexPrice == BigNumInt(market.IndexPrice)
  IN  IF IsExpired(BigNumInt(o.ExpirationTimeSeconds), now)
      THEN [order |-> o,
            ret |-> Error("ErrOrderExpired", "order expiration %s <= block time %s")]
      ELSE IF typed.ret # Nil THEN typed
      ELSE IF IsBelowContractPriceMargin(margin, ComputeContractPriceMarginRequirement(o1, market))
      THEN [order |-> o1,
            ret |-> Error("ErrOverLeveragedOrder", "margin %s < contractPriceMarginRequirement %s")]
      ELSE IF indexed.ret.kind = "panic" THEN indexed
      ELSE IF IsLongOverLeveraged(isLong, indexPrice, indexed.ret.val)
      THEN [order |-> indexed.order,
            ret |-> Error("ErrOverLeveragedOrder", "indexPrice %s <= indexPriceReq %s")]
      ELSE IF IsShortOverLeveraged(isLong, indexPrice, indexed.ret.val)
      THEN [order |-> indexed.order,
            ret |-> Error("ErrOverLeveragedOrder", "indexPrice %s >= indexPriceReq %s")]
      ELSE [order |-> indexed.order, ret |-> Nil]

\* variant: a requirement already memoized on the order is reused, not recomputed
DoesValidationPassReuseMemo(o, isLong, market, now, spill) ==
  LET typed == ComputeAndSetOrderType(o, spill)
      o1 == typed.order
      orderExpirationTime == BigNumInt(o1.ExpirationTimeSeconds)
      margin == BigNumInt(o1.MakerFee)
      contractPriceMarginRequirement == ComputeContractPriceMarginRequirement(o1, market)
      indexed == IF o1.IndexPriceRequirement # <<>>
                 THEN [order |-> o1, ret |-> Value(BigNumInt(o1.IndexPriceRequirement))]
                 ELSE ComputeIndexPriceMarginRequirement(o1, isLong, market)
      indexPrice == BigNumInt(market.IndexPrice)
  IN  IF typed.ret # Nil THEN typed
      ELSE IF IsExpired(orderExpirationTime, now)
      THEN [order |-> o1,
            ret |-> Error("ErrOrderExpired", "order expiration %s <= block time %s")]
      ELSE IF IsBelowContractPriceMargin(margin, contractPriceMarginRequirement)
      THEN [order |-> o1,
            ret |-> Error("ErrOverLeveragedOrder", "margin %s < contractPriceMarginRequirement %s")]
      ELSE IF indexed.ret.kind = "panic" THEN indexed
      ELSE IF IsLongOverLeveraged(isLong, indexPrice, indexed.ret.val)
      THEN [order |-> indexed.order,
            ret |-> Error("ErrOverLeveragedOrder", "indexPrice %s <= indexPriceReq %s")]
      ELSE IF IsShortOverLeveraged(isLong, indexPrice, indexed.ret.val)
      THEN [order |-> indexed.order,
            ret |-> Error("ErrOverLeveragedOrder", "indexPrice %s >= indexPriceReq %s")]
      ELSE [order |-> indexed.order, ret |-> Nil]

\* DoesValidationPass(isLong, market, currBlockTime); now = currBlockTime.Unix()
DoesValidationPass(o, isLong, market, now, spill) ==
  LET typed == ComputeAndSetOrderType(o, spill)
      o1 == typed.order
      orderExpirationTime == BigNumInt(o1.ExpirationTimeSeconds)
      margin == BigNumInt(o1.MakerFee)
      contractPriceMarginRequirement == ComputeContractPriceMarginRequirement(o1, market)
      indexed == ComputeIndexPriceMarginRequirement(o1, isLong, market)
      indexPrice == BigNumInt(market.IndexPrice)
  IN  IF typed.ret # Nil THEN typed
      ELSE IF IsExpired(orderExpirationTime, now)
      THEN [order |-> o1,
            ret |-> Error("ErrOrderExpired", "order expiration %s <= block time %s")]
      ELSE IF IsBelowContractPriceMargin(margin, contractPriceMarginRequirement)
      THEN [order |-> o1,
            ret |-> Error("ErrOverLeveragedOrder", "margin %s < contractPriceMarginRequirement %s")]
      ELSE IF indexed.ret.kind = "panic" THEN indexed
      ELSE IF IsLongOverLeveraged(isLong, indexPrice, indexed.ret.val)
      THEN [order |-> indexed.order,
            ret |-> Error("ErrOverLeveragedOrder", "indexPrice %s <= indexPriceReq %s")]
      ELSE IF IsShortOverLeveraged(isLong, indexPrice, indexed.ret.val)
      THEN [order |-> indexed.order,
            ret |-> Error("ErrOverLeveragedOrder", "indexPrice %s >= indexPriceReq %s")]
      ELSE [order |-> indexed.order, ret |-> Nil]

-----------------------------------------------------------------------------
(* Canonical identifiers *)

\* common.AddressLength
AddressLength == 20

\* common.HexToAddress: the last AddressLength bytes, left-padded with zeros
HexToAddress(s) ==
  LET b == FromHex(s)
      c == IF Len(b) > AddressLength THEN SubSeq(b, Len(b) - AddressLength + 1, Len(b)) ELSE b
  IN  LeftPadBytes(c, AddressLength)

\* crypto.Keccak256Hash over the concatenated input, kept uninterpreted
ComputeSubaccountID(makerAddress, takerFee) ==
  [keccak256 |-> HexToAddress(makerAddress) \o LeftPadBytes(IntBytes(BigNumInt(takerFee)), 32)]

\* variant: the asset data are cut to AddressLength bytes
GetDirectionMarketAndSubaccountIDAddressLength(o) ==
  LET mData0 == FromHex(o.MakerAssetData)
      tData0 == FromHex(o.TakerAssetData)
      mData == IF Len(mData0) > AddressLength THEN SubSeq(mData0, 1, AddressLength) ELSE mData0
      tData == IF Len(tData0) > AddressLength THEN SubSeq(tData0, 1, AddressLength) ELSE tData0
      subaccountID == ComputeSubaccountID(o.MakerAddress, o.TakerFee)
  IN  IF tData = SubSeq(ZeroHash, 1, AddressLength)
      THEN Identifiers(TRUE, BytesToHash(mData), subaccountID)
      ELSE Identifiers(FALSE, BytesToHash(tData), subaccountID)

GetDirectionMarketAndSubaccountID(o) ==
  LET mData0 == FromHex(o.MakerAssetData)
      tData0 == FromHex(o.TakerAssetData)
      mData == IF Len(mData0) > HashLength THEN SubSeq(mData0, 1, HashLength) ELSE mData0
      tData == IF Len(tData0) > HashLength THEN SubSeq(tData0, 1, HashLength) ELSE tData0
      subaccountID == ComputeSubaccountID(o.MakerAddress, o.TakerFee)
  IN  IF tData = ZeroHash
      THEN Identifiers(TRUE, BytesToHash(mData), subaccountID)
      ELSE Identifiers(FALSE, BytesToHash(tData), subaccountID)

-----------------------------------------------------------------------------
(* Inputs *)

\* the hex string of a byte slice, 0x-prefixed
RECURSIVE HexDigitsOf(_)
HexDigitsOf(b) ==
  IF b = <<>> THEN <<>>
  ELSE <<HexLower[(b[1] \div 16) + 1], HexLower[(b[1] % 16) + 1]>> \o HexDigitsOf(Tail(b))

HexOf(b) == <<"0", "x">> \o HexDigitsOf(b)

\* n bytes, all zero but those the function `set` gives
BytesWith(n, set) == SubSeq([i \in 1..n |-> IF i \in DOMAIN set THEN set[i] ELSE 0], 1, n)

Zeros(n) == BytesWith(n, <<>>)

\* n bytes, the i-th being i
Counting(n) == SubSeq([i \in 1..n |-> i], 1, n)

\* makerFeeAssetData whose leading 32 bytes are the values 0, 5 and 1
TypeData0 == HexOf(Zeros(32))
TypeData5 == HexOf(BytesWith(32, 32 :> 5))
TypeData1 == HexOf(BytesWith(32, 32 :> 1))

\* further makerFeeAssetData: 2^64 + 5, 2^64, 2^248 + 5, 261, and 5 or 0
\* followed by four more bytes, and data shorter than 32 bytes
TypeDataMore ==
  { HexOf(BytesWith(32, (24 :> 1) @@ (32 :> 5))),
    HexOf(BytesWith(32, 24 :> 1)),
    HexOf(BytesWith(32, (1 :> 1) @@ (32 :> 5))),
    HexOf(BytesWith(32, (31 :> 1) @@ (32 :> 5))),
    HexOf(BytesWith(36, (32 :> 5) @@ (36 :> 9))),
    HexOf(BytesWith(36, 36 :> 9)),
    HexOf(BytesWith(20, 20 :> 5)),
    <<"0", "x">> }

\* what slicing past the length of a short decoded slice can find: nothing (the
\* capacity is short as well), zero bytes, or the undecoded hex characters left
\* in the buffer
SpillSet(o) ==
  LET n == Len(FromHex(o.MakerFeeAssetData))
  IN  IF n >= HashLength THEN {<<>>}
      ELSE {<<>>, Zeros(HashLength - n), SubSeq([i \in 1..(HashLength - n) |-> 48], 1, HashLength - n)}

MakerAssetDataSet ==
  { HexOf(Counting(32)), HexOf(Counting(36)), HexOf(Counting(20)) }

TakerAssetDataSet ==
  { HexOf(Zeros(32)), HexOf(Zeros(36)), HexOf(Zeros(20)),
    HexOf(BytesWith(32, 21 :> 7)), HexOf(BytesWith(36, 33 :> 7)),
    HexOf(BytesWith(32, 1 :> 7)), HexOf(BytesWith(20, 20 :> 7)) }

\* a signature of n bytes ending in the tag byte
SignatureOf(n, tag) == HexOf(BytesWith(n, n :> tag))

SignatureSet ==
  { SignatureOf(n, tag) : n \in {1, 20, 21, 65, 66, 67}, tag \in 0..8 }
    \cup { SignatureOf(66, 255), <<"0", "x">>, <<>> }

DefaultSignature == SignatureOf(1, PreSignedSignature)

DefaultAddress == HexOf(Counting(20))

NewOrder(price, quantity, margin, expiration, typeData, mData, tData, sig) ==
  [ MakerAddress |-> DefaultAddress,
    MakerAssetAmount |-> String(price),
    TakerAssetAmount |-> String(quantity),
    MakerFee |-> String(margin),
    TakerFee |-> String(1),
    ExpirationTimeSeconds |-> String(expiration),
    MakerAssetData |-> mData,
    TakerAssetData |-> tData,
    MakerFeeAssetData |-> typeData,
    Signature |-> sig,
    OrderType |-> 0,
    IndexPriceRequirement |-> <<>> ]

\* orders that exercise the validation pipeline
ValidationOrders ==
  { NewOrder(p, q, m, 1, t, HexOf(Counting(32)), HexOf(Zeros(32)), DefaultSignature) :
      p \in {1, 100}, q \in {0, 10}, m \in {99, 100, 150},
      t \in {TypeData5, TypeData1} }

\* orders that exercise the classifier, the identifier deriver and the
\* signature check
DataOrders ==
  { NewOrder(100, 10, 150, 1, t, HexOf(Counting(32)), HexOf(Zeros(32)), DefaultSignature) :
      t \in TypeDataMore }
  \cup
  { NewOrder(100, 10, 150, 1, TypeData0, m, t, DefaultSignature) :
      m \in MakerAssetDataSet, t \in TakerAssetDataSet }
  \cup
  { NewOrder(100, 10, 150, 1, TypeData0, HexOf(Counting(32)), HexOf(Zeros(32)), sig) :
      sig \in SignatureSet }

NewMarket(ratio, indexPrice) ==
  [ InitialMarginRatio |-> String(ratio), IndexPrice |-> String(indexPrice) ]

MarketSet == { NewMarket(r, i) : r \in {1000, 10000}, i \in {90, 95, 104} }

DefaultMarket == NewMarket(1000, 95)

MakerTxFeePermyriadSet == {0, 15}

-----------------------------------------------------------------------------
(* The state machine: an order built for a transaction, the market snapshot  *)
(* and block time of that transaction, and the calls made on the order.      *)
(* `orders` and `validation` hold the Order instances and the frames of      *)
(* validations running side by side; they are empty while one order is       *)
(* validated call by call.                                                   *)

\* the two memoized fields of an order
Memo(o) == [OrderType |-> o.OrderType, IndexPriceRequirement |-> o.IndexPriceRequirement]

Init ==
  /\ \/ /\ order \in ValidationOrders
        /\ derivativeMarket \in MarketSet
        /\ currBlockTime \in 0..MaxTime
     \/ /\ order \in DataOrders
        /\ derivativeMarket = DefaultMarket
        /\ currBlockTime = 0
  /\ call = [op |-> "none"]
  /\ ret = [kind |-> "none"]
  /\ orders = <<>>
  /\ validation = <<>>

CallDoesValidationPass ==
  \E isLong \in BOOLEAN, spill \in SpillSet(order) :
    LET r == DoesValidationPass(order, isLong, derivativeMarket, currBlockTime, spill)
    IN  /\ order' = r.order
        /\ ret' = r.ret
        /\ call' = [op |-> "DoesValidationPass", isLong |-> isLong, spill |-> spill, before |-> Memo(order)]
        /\ UNCHANGED <<derivativeMarket, currBlockTime, orders, validation>>

CallComputeAndSetOrderType ==
  \E spill \in SpillSet(order) :
    LET r == ComputeAndSetOrderType(order, spill)
    IN  /\ order' = r.order
        /\ ret' = r.ret
        /\ call' = [op |-> "ComputeAndSetOrderType", spill |-> spill, before |-> Memo(order)]
        /\ UNCHANGED <<derivativeMarket, currBlockTime, orders, validation>>

CallComputeContractPriceMarginRequirement ==
  /\ ret' = Value(ComputeContractPriceMarginRequirement(order, derivativeMarket))
  /\ call' = [op |-> "ComputeContractPriceMarginRequirement", before |-> Memo(order)]
  /\ UNCHANGED <<order, derivativeMarket, currBlockTime, orders, validation>>

CallComputeIndexPriceMarginRequirement ==
  \E isLong \in BOOLEAN :
    LET r == ComputeIndexPriceMarginRequirement(order, isLong, derivativeMarket)
    IN  /\ order' = r.order
        /\ ret' = r.ret
        /\ call' = [op |-> "ComputeIndexPriceMarginRequirement", isLong |-> isLong, before |-> Memo(order)]
        /\ UNCHANGED <<derivativeMarket, currBlockTime, orders, validation>>

CallComputeOrderMarginHold ==
  \E remainingQuantity \in (0 - 1)..MaxRemaining, makerTxFeePermyriad \in MakerTxFeePermyriadSet :
    /\ ret' = ComputeOrderMarginHold(order, remainingQuantity, makerTxFeePermyriad)
    /\ call' = [op |-> "ComputeOrderMarginHold", remainingQuantity |-> remainingQuantity,
                makerTxFeePermyriad |-> makerTxFeePermyriad, before |-> Memo(order)]
    /\ UNCHANGED <<order, derivativeMarket, currBlockTime, orders, validation>>

CallGetDirectionMarketAndSubaccountID ==
  /\ ret' = GetDirectionMarketAndSubaccountID(order)
  /\ call' = [op |-> "GetDirectionMarketAndSubaccountID", before |-> Memo(order)]
  /\ UNCHANGED <<order, derivativeMarket, currBlockTime, orders, validation>>

CallIsValidSignature ==
  /\ ret' = isValidSignature(order.Signature)
  /\ call' = [op |-> "isValidSignature", before |-> Memo(order)]
  /\ UNCHANGED <<order, derivativeMarket, currBlockTime, orders, validation>>

Next ==
  \/ CallDoesValidationPass
  \/ CallComputeAndSetOrderType
  \/ CallComputeContractPriceMarginRequirement
  \/ CallComputeIndexPriceMarginRequirement
  \/ CallComputeOrderMarginHold
  \/ CallGetDirectionMarketAndSubaccountID
  \/ CallIsValidSignature

Spec == Init /\ [][Next]_vars

-----------------------------------------------------------------------------
(* Vocabulary of the properties *)

\* the verdicts of DoesValidationPass
Accepted == ret = Nil
UnrecognizedOrderType == ret.kind = "error" /\ ret.err = "ErrUnrecognizedOrderType"
OrderExpired == ret.kind = "error" /\ ret.err = "ErrOrderExpired"
OverLeveragedContractPrice ==
  /\ ret.kind = "error"
  /\ ret.err = "ErrOverLeveragedOrder"
  /\ ret.format = "margin %s < contractPriceMarginRequirement %s"
OverLeveragedIndexPriceLong ==
  /\ ret.kind = "error"
  /\ ret.err = "ErrOverLeveragedOrder"
  /\ ret.format = "indexPrice %s <= indexPriceReq %s"
OverLeveragedIndexPriceShort ==
  /\ ret.kind = "error"
  /\ ret.err = "ErrOverLeveragedOrder"
  /\ ret.format = "indexPrice %s >= indexPriceReq %s"

\* the inputs of the last call, as integers
price == BigNumInt(order.MakerAssetAmount)
quantity == BigNumInt(order.TakerAssetAmount)
margin == BigNumInt(order.MakerFee)
expirationTimeSeconds == BigNumInt(order.ExpirationTimeSeconds)
initialMarginRatio == BigNumInt(derivativeMarket.InitialMarginRatio)
indexPrice == BigNumInt(derivativeMarket.IndexPrice)

AfterValidation == call.op = "DoesValidationPass"

\* how the classification step of the last validation ended
TypeStep == ComputeAndSetOrderType(order, call.spill).ret.kind
TypeRecognized == TypeStep = "nil"
TypeFails == TypeStep = "error"

\* the checks of the pipeline, each taken on its own
ExpiryFails == expirationTimeSeconds <= currBlockTime
ContractPriceRequirement == ScalePermyriad(quantity, initialMarginRatio) * price
ContractPriceFails == margin < ContractPriceRequirement
Numerator(isLong) == IF isLong THEN margin - price * quantity ELSE margin + price * quantity
Denominator(isLong) ==
  IF isLong THEN ScalePermyriad(quantity, initialMarginRatio) - quantity
  ELSE ScalePermyriad(quantity, initialMarginRatio) + quantity
IndexPriceFails ==
  /\ Denominator(call.isLong) # 0
  /\ \/ call.isLong /\ indexPrice < Div(Numerator(TRUE), Denominator(TRUE))
     \/ ~call.isLong /\ indexPrice > Div(Numerator(FALSE), Denominator(FALSE))

-----------------------------------------------------------------------------
(* C1: DoesValidationPass checks order type, expiry, contract-price margin  *)
(* and index-price margin in that order and returns the reason of the first *)
(* check that fails, whatever later checks fail as well.                    *)
C1_FirstFailingCheckDecides ==
  (AfterValidation /\ TypeStep # "panic") =>
    /\ TypeFails => UnrecognizedOrderType
    /\ (TypeRecognized /\ ExpiryFails) => OrderExpired
    /\ (TypeRecognized /\ ~ExpiryFails /\ ContractPriceFails) => OverLeveragedContractPrice
    /\ (TypeRecognized /\ ~ExpiryFails /\ ~ContractPriceFails /\ IndexPriceFails) =>
         (OverLeveragedIndexPriceLong \/ OverLeveragedIndexPriceShort)

\* an order failing all four checks at once is rejected for its type
C1_Witness ==
  /\ AfterValidation
  /\ TypeFails /\ ExpiryFails /\ ContractPriceFails /\ IndexPriceFails
  /\ UnrecognizedOrderType

(* C2: for an order of recognized type the verdict is OrderExpired exactly  *)
(* when expirationTimeSeconds <= currentTime (equality is expired, one      *)
(* second later is not).                                                    *)
C2_ExpiredIffNotAfterBlockTime ==
  (AfterValidation /\ TypeRecognized) =>
    (OrderExpired <=> expirationTimeSeconds <= currBlockTime)

\* the boundary: an order expiring exactly at the block time is rejected
C2_Witness ==
  /\ AfterValidation /\ TypeRecognized
  /\ expirationTimeSeconds = currBlockTime
  /\ OrderExpired

(* C3: for an unexpired order of recognized type the contract-price step    *)
(* rejects exactly when margin < ScalePermyriad(quantity, ratio) * price;   *)
(* for price 100, quantity 10, ratio 1000 the requirement is 100, margins   *)
(* 150 and 100 pass the step and margin 99 is rejected.                     *)
C3_ContractPriceStrictlyBelow ==
  (AfterValidation /\ TypeRecognized /\ ~ExpiryFails) =>
    /\ OverLeveragedContractPrice <=> margin < ScalePermyriad(quantity, initialMarginRatio) * price
    /\ (price = 100 /\ quantity = 10 /\ initialMarginRatio = 1000) =>
         /\ ContractPriceRequirement = 100
         /\ margin \in {100, 150} => ~OverLeveragedContractPrice
         /\ margin = 99 => OverLeveragedContractPrice

\* the boundary: a margin equal to the requirement of 100 passes the step
C3_Witness ==
  /\ AfterValidation /\ TypeRecognized /\ ~ExpiryFails
  /\ price = 100 /\ quantity = 10 /\ initialMarginRatio = 1000 /\ margin = 100
  /\ ~OverLeveragedContractPrice

(* C4: once type, expiry and contract-price steps have passed and the       *)
(* requirement is computed, a long order is rejected exactly when           *)
(* indexPrice < requirement and a short order exactly when                  *)
(* indexPrice > requirement; indexPrice = requirement is accepted.          *)
C4_IndexPriceComparison ==
  (/\ AfterValidation /\ TypeRecognized /\ ~ExpiryFails /\ ~ContractPriceFails
   /\ Denominator(call.isLong) # 0) =>
    LET requirement == Div(Numerator(call.isLong), Denominator(call.isLong))
    IN  /\ OverLeveragedIndexPriceLong <=> (call.isLong /\ indexPrice < requirement)
        /\ OverLeveragedIndexPriceShort <=> (~call.isLong /\ indexPrice > requirement)
        /\ ~(OverLeveragedIndexPriceLong \/ OverLeveragedIndexPriceShort) => Accepted

\* the boundary: a long order whose requirement equals the index price passes
C4_Witness ==
  /\ AfterValidation /\ TypeRecognized /\ ~ExpiryFails /\ ~ContractPriceFails
  /\ call.isLong
  /\ Denominator(TRUE) # 0
  /\ indexPrice = Div(Numerator(TRUE), Denominator(TRUE))
  /\ Accepted

-----------------------------------------------------------------------------
(* C5: ComputeIndexPriceMarginRequirement returns numerator / denominator   *)
(* truncated toward zero (long: (margin - pq) / (alpha - quantity), short:  *)
(* (margin + pq) / (alpha + quantity)): margin 150, price 100, quantity 10, *)
(* ratio 1000, long gives -850 / -9 = 94.                                   *)
AfterIndexPriceRequirement ==
  call.op = "ComputeIndexPriceMarginRequirement" /\ ret.kind = "value"

C5_TruncatedQuotient ==
  AfterIndexPriceRequirement =>
    /\ ret.val = Quo(Numerator(call.isLong), Denominator(call.isLong))
    /\ (call.isLong /\ margin = 150 /\ price = 100 /\ quantity = 10 /\ initialMarginRatio = 1000) =>
         ret.val = 94

(* C6: with a zero index-price denominator the margin computation, and the  *)
(* validation that reaches it, return a DivisionByZero error value; they do *)
(* not panic.                                                               *)
ReachesIndexPriceStep ==
  \/ call.op = "ComputeIndexPriceMarginRequirement"
  \/ AfterValidation /\ TypeRecognized /\ ~ExpiryFails /\ ~ContractPriceFails

C6_ZeroDenominatorIsAnError ==
  (ReachesIndexPriceStep /\ Denominator(call.isLong) = 0) =>
    /\ ret.kind # "panic"
    /\ ret.kind = "error" /\ ret.err = "ErrDivisionByZero"

(* C7: ComputeOrderMarginHold returns                                       *)
(* trunc(IncrementByScaledPermyriad(margin, fee) * remaining / original)    *)
(* for original # 0 and a DivisionByZero error, not a panic, for            *)
(* original = 0.                                                            *)
C7_MarginHoldTruncatesOrErrors ==
  call.op = "ComputeOrderMarginHold" =>
    IF quantity # 0
    THEN ret = Value(Quo(IncrementByScaledPermyriad(margin, call.makerTxFeePermyriad)
                           * call.remainingQuantity, quantity))
    ELSE ret.kind = "error" /\ ret.err = "ErrDivisionByZero"

(* C8: ComputeAndSetOrderType succeeds exactly when the leading 32 bytes of *)
(* makerFeeAssetData, as one big-endian 256-bit integer, are 0 or 5; any    *)
(* other value, 2^64 + 5 included, is UnrecognizedOrderType.                *)
makerFeeAssetData == FromHex(order.MakerFeeAssetData)

\* the leading 32 bytes are the 256-bit big-endian integer v (0 <= v < 256)
Leading256Is(v) ==
  /\ \A i \in 1..(HashLength - 1) : makerFeeAssetData[i] = 0
  /\ makerFeeAssetData[HashLength] = v

C8_ClassifierReadsAll256Bits ==
  (call.op = "ComputeAndSetOrderType" /\ Len(makerFeeAssetData) >= HashLength) =>
    IF Leading256Is(0) \/ Leading256Is(5) THEN ret = Nil ELSE UnrecognizedOrderType

(* C9: isValidSignature decides by the tag in the last signature byte:      *)
(* Invalid and Illegal reject; EIP712 and EthSign accept iff the length is  *)
(* 66; Validator accepts iff the length is at least 21; PreSigned, Wallet   *)
(* and EIP1271Wallet accept; every other tag rejects.                       *)
signatureBytes == FromHex(order.Signature)
signatureTag == signatureBytes[Len(signatureBytes)]

SignatureTable ==
  IF signatureTag \in {InvalidSignature, IllegalSignature} THEN FALSE
  ELSE IF signatureTag \in {EIP712Signature, EthSignSignature} THEN Len(signatureBytes) = 66
  ELSE IF signatureTag = ValidatorSignature THEN Len(signatureBytes) >= 21
  ELSE IF signatureTag \in {PreSignedSignature, WalletSignature, EIP1271WalletSignature} THEN TRUE
  ELSE FALSE

C9_SignatureTable ==
  (call.op = "isValidSignature" /\ Len(signatureBytes) > 0) =>
    ret = Bool(SignatureTable)

\* an EIP712 signature of 66 bytes is accepted
C9_Witness ==
  /\ call.op = "isValidSignature"
  /\ Len(signatureBytes) = 66 /\ signatureTag = EIP712Signature
  /\ ret = Bool(TRUE)

(* C10: GetDirectionMarketAndSubaccountID cuts makerAssetData and           *)
(* takerAssetData to their leading 20 bytes and is long with marketId the   *)
(* cut makerAssetData exactly when the cut takerAssetData is 20 zero bytes, *)
(* else short with marketId the cut takerAssetData.                         *)
Leading(b, n) == IF Len(b) > n THEN SubSeq(b, 1, n) ELSE b
makerAssetData == FromHex(order.MakerAssetData)
takerAssetData == FromHex(order.TakerAssetData)
AfterDerivation == call.op = "GetDirectionMarketAndSubaccountID"

C10_TwentyBytePrefix ==
  AfterDerivation =>
    /\ ret.isLong <=> (Leading(takerAssetData, 20) = Zeros(20))
    /\ ret.marketID = IF Leading(takerAssetData, 20) = Zeros(20)
                          THEN Leading(makerAssetData, 20)
                          ELSE Leading(takerAssetData, 20)

(* C10 as amended: the data are cut to their leading 32 bytes; the order is *)
(* long with marketId the cut makerAssetData exactly when the cut           *)
(* takerAssetData is 32 zero bytes, else short with marketId the cut        *)
(* takerAssetData; a marketId shorter than 32 bytes is left-padded with     *)
(* zero bytes to 32.                                                        *)
C10_ThirtyTwoBytePrefix ==
  AfterDerivation =>
    /\ ret.isLong <=> (Leading(takerAssetData, 32) = Zeros(32))
    /\ ret.marketID = IF Leading(takerAssetData, 32) = Zeros(32)
                          THEN LeftPadBytes(Leading(makerAssetData, 32), 32)
                          ELSE LeftPadBytes(Leading(takerAssetData, 32), 32)

\* takerAssetData longer than 32 bytes with a zero 32-byte prefix: long, and
\* the market is the 32-byte prefix of a longer makerAssetData
C10_Witness ==
  /\ AfterDerivation
  /\ Len(takerAssetData) > 32 /\ Len(makerAssetData) > 32
  /\ ret.isLong
  /\ ret.marketID = SubSeq(makerAssetData, 1, 32)

-----------------------------------------------------------------------------
(* The permyriad scaler on its own: amounts and rates around zero, around   *)
(* the base and on both sides of a multiple of the base.                    *)

AmountSet == {0 - 20000, 0 - 15000, 0 - 10000, 0 - 9999, 0 - 1, 0, 1, 150, 9999, 10000, 15000, 20000}

PermyriadSet == {0 - 10000, 0 - 1, 0, 1, 15, 1000, 10000}

\* an order no call of this specification reads
IdleOrder == NewOrder(100, 10, 150, 1, <<"0", "x">>, <<"0", "x">>, <<"0", "x">>, DefaultSignature)

ScalerInit ==
  /\ order = IdleOrder
  /\ derivativeMarket = DefaultMarket
  /\ currBlockTime = 0
  /\ call = [op |-> "none"]
  /\ ret = [kind |-> "none"]
  /\ orders = <<>>
  /\ validation = <<>>

CallScalePermyriad ==
  \E amount \in AmountSet, permyriad \in PermyriadSet :
    /\ ret' = Value(ScalePermyriad(amount, permyriad))
    /\ call' = [op |-> "ScalePermyriad", amount |-> amount, permyriad |-> permyriad]
    /\ UNCHANGED <<order, derivativeMarket, currBlockTime, orders, validation>>

CallIncrementByScaledPermyriad ==
  \E amount \in AmountSet, permyriad \in PermyriadSet :
    /\ ret' = Value(IncrementByScaledPermyriad(amount, permyriad))
    /\ call' = [op |-> "IncrementByScaledPermyriad", amount |-> amount, permyriad |-> permyriad]
    /\ UNCHANGED <<order, derivativeMarket, currBlockTime, orders, validation>>

ScalerNext ==
  \/ CallScalePermyriad
  \/ CallIncrementByScaledPermyriad

ScalerSpec == ScalerInit /\ [][ScalerNext]_vars

(* C11: ScalePermyriad(amount, permyriad) is amount * permyriad / 10000     *)
(* truncated toward zero for all integers, a negative product included      *)
(* (scale(-1, 1) = 0, scale(-15000, 1) = -1), and it never fails.           *)
C11_ScaleTruncatesTowardZero ==
  call.op = "ScalePermyriad" =>
    /\ ret.kind = "value"
    /\ ret.val = Quo(call.amount * call.permyriad, 10000)
    /\ (call.amount = 0 - 1 /\ call.permyriad = 1) => ret.val = 0
    /\ (call.amount = 0 - 15000 /\ call.permyriad = 1) => ret.val = 0 - 1

(* C12: ScalePermyriad(amount, 10000) = amount for every non-negative       *)
(* amount, and IncrementByScaledPermyriad(amount, 0) = amount for every     *)
(* amount.                                                                  *)
C12_NeutralElements ==
  /\ (call.op = "ScalePermyriad" /\ call.amount >= 0 /\ call.permyriad = 10000) =>
       ret = Value(call.amount)
  /\ (call.op = "IncrementByScaledPermyriad" /\ call.permyriad = 0) =>
       ret = Value(call.amount)

\* a positive amount scaled by the whole base comes back unchanged
C12_Witness ==
  /\ call.op = "ScalePermyriad"
  /\ call.amount = 15000 /\ call.permyriad = 10000
  /\ ret = Value(15000)

-----------------------------------------------------------------------------
(* One order validated twice with the same direction, market snapshot and   *)
(* block time.                                                              *)

ReplayInit ==
  /\ \/ /\ order \in ValidationOrders
        /\ derivativeMarket \in MarketSet
        /\ currBlockTime \in 0..MaxTime
     \/ /\ order \in { NewOrder(100, 10, 150, 1, t, HexOf(Counting(32)), HexOf(Zeros(32)), DefaultSignature) :
                         t \in TypeDataMore }
        /\ derivativeMarket = DefaultMarket
        /\ currBlockTime = 0
  /\ call = [op |-> "none"]
  /\ ret = [kind |-> "none"]
  /\ orders = <<>>
  /\ validation = <<>>

\* the first invocation
Validate ==
  /\ call.op = "none"
  /\ \E isLong \in BOOLEAN, spill \in SpillSet(order) :
       LET r == DoesValidationPass(order, isLong, derivativeMarket, currBlockTime, spill)
       IN  /\ order' = r.order
           /\ ret' = r.ret
           /\ call' = [op |-> "DoesValidationPass", isLong |-> isLong, spill |-> spill,
                       before |-> Memo(order), run |-> 1]
  /\ UNCHANGED <<derivativeMarket, currBlockTime, orders, validation>>

\* the second invocation, on the order as the first one left it; `first` keeps
\* what the first invocation returned and left on the order
Revalidate ==
  /\ call.op = "DoesValidationPass"
  /\ call.run = 1
  /\ ret.kind # "panic"
  /\ LET r == DoesValidationPass(order, call.isLong, derivativeMarket, currBlockTime, call.spill)
     IN  /\ order' = r.order
         /\ ret' = r.ret
         /\ call' = [op |-> "DoesValidationPass", isLong |-> call.isLong, spill |-> call.spill,
                     before |-> Memo(order), run |-> 2,
                     first |-> [ret |-> ret, memo |-> Memo(order)]]
  /\ UNCHANGED <<derivativeMarket, currBlockTime, orders, validation>>

ReplayNext ==
  \/ Validate
  \/ Revalidate

ReplaySpec == ReplayInit /\ [][ReplayNext]_vars

(* C13: a second DoesValidationPass on the same order with the same         *)
(* direction, market snapshot and timestamp returns the verdict of the      *)
(* first and leaves orderType and indexPriceRequirement as the first left   *)
(* them.                                                                    *)
SecondInvocation == call.op = "DoesValidationPass" /\ call.run = 2

C13_ValidationIsIdempotent ==
  SecondInvocation =>
    /\ ret = call.first.ret
    /\ Memo(order) = call.first.memo

\* an order accepted twice, carrying type 5 and a requirement
C13_Witness ==
  /\ SecondInvocation
  /\ Accepted /\ call.first.ret = Nil
  /\ order.OrderType = 5
  /\ order.IndexPriceRequirement # <<>>

-----------------------------------------------------------------------------
(* C14: whenever DoesValidationPass returns nil the order's orderType is 0  *)
(* or 5 and is the value of the leading 32 bytes of makerFeeAssetData, and  *)
(* its indexPriceRequirement is the decimal string of the index-price       *)
(* margin requirement computed for the direction of that call.              *)
C14_AcceptedOrderCarriesItsMemo ==
  (AfterValidation /\ Accepted /\ Len(makerFeeAssetData) >= HashLength) =>
    /\ order.OrderType \in {0, 5}
    /\ Norm(SubSeq(makerFeeAssetData, 1, HashLength)) = IntBytes(order.OrderType)
    /\ order.IndexPriceRequirement =
         String(Div(Numerator(call.isLong), Denominator(call.isLong)))

(* C15: the verdict of DoesValidationPass is a function of the signed       *)
(* fields, the direction, the market snapshot and the timestamp: a run on   *)
(* an order with any prior orderType and indexPriceRequirement returns the  *)
(* verdict of the run on the same order with neither set, so two runs that  *)
(* agree on those inputs agree on the verdict.                              *)
Unvalidated(o) == [o EXCEPT !.OrderType = 0, !.IndexPriceRequirement = <<>>]

C15_VerdictIgnoresPriorMemo ==
  AfterValidation =>
    ret = DoesValidationPass(Unvalidated(order), call.isLong, derivativeMarket,
                             currBlockTime, call.spill).ret

\* a long order accepted while it carried type 5 and the requirement an earlier
\* short computation had left
C15_Witness ==
  /\ AfterValidation /\ Accepted /\ call.isLong
  /\ call.before.OrderType = 5
  /\ call.before.IndexPriceRequirement # <<>>
  /\ Denominator(FALSE) # 0
  /\ call.before.IndexPriceRequirement = String(Div(Numerator(FALSE), Denominator(FALSE)))
  /\ call.before.IndexPriceRequirement # order.IndexPriceRequirement

-----------------------------------------------------------------------------
(* Two Order instances validated against one market snapshot, their         *)
(* pipelines interleaved step by step.  `orders[i]` is the instance the     *)
(* receiver of validation i points to, `validation[i]` its frame.           *)

Instances == {1, 2}

Other(i) == 3 - i

InterleavedOrders ==
  { NewOrder(100, 10, m, e, t, <<"0", "x">>, <<"0", "x">>, DefaultSignature) :
      m \in {99, 150}, e \in {0, 1}, t \in {TypeData5, TypeData1} }

Idle == [pc |-> "idle"]

InterleaveInit ==
  /\ orders \in [Instances -> InterleavedOrders]
  /\ validation = [i \in Instances |-> Idle]
  /\ derivativeMarket \in {NewMarket(1000, 95), NewMarket(1000, 90)}
  /\ currBlockTime = 0
  /\ order = IdleOrder
  /\ call = [op |-> "none"]
  /\ ret = [kind |-> "none"]

\* variant: the memoized fields are kept in one place for all orders
StoreShared(os, i, o) ==
  [j \in DOMAIN os |->
     [os[j] EXCEPT !.OrderType = o.OrderType, !.IndexPriceRequirement = o.IndexPriceRequirement]]

\* a write through the receiver `order *Order` of validation i
Store(os, i, o) == [os EXCEPT ![i] = o]

Return(i, err) ==
  validation' = [validation EXCEPT ![i] = [@ EXCEPT !.pc = "done", !.err = err]]

Goto(i, pc) == validation' = [validation EXCEPT ![i] = [@ EXCEPT !.pc = pc]]

\* the call: order.DoesValidationPass(isLong, market, currBlockTime); `overlap`
\* notes whether the other validation was under way at that moment
Begin(i) ==
  /\ validation[i].pc = "idle"
  /\ \E isLong \in BOOLEAN :
       validation' = [validation EXCEPT ![i] =
         [pc |-> "ComputeAndSetOrderType", isLong |-> isLong, err |-> [kind |-> "none"],
          indexPriceMarginRequirement |-> 0,
          overlap |-> validation[Other(i)].pc \notin {"idle", "done"}]]
  /\ UNCHANGED <<order, derivativeMarket, currBlockTime, call, ret, orders>>

\* err := order.ComputeAndSetOrderType(); if err != nil { return err }
StepOrderType(i) ==
  /\ validation[i].pc = "ComputeAndSetOrderType"
  /\ LET r == ComputeAndSetOrderType(orders[i], <<>>)
     IN  IF r.ret # Nil
         THEN Return(i, r.ret) /\ UNCHANGED orders
         ELSE Goto(i, "expiry") /\ orders' = Store(orders, i, r.order)
  /\ UNCHANGED <<order, derivativeMarket, currBlockTime, call, ret>>

\* if orderExpirationTime.Cmp(blockTime) <= 0 { return ErrOrderExpired }
StepExpiry(i) ==
  /\ validation[i].pc = "expiry"
  /\ IF IsExpired(BigNumInt(orders[i].ExpirationTimeSeconds), currBlockTime)
     THEN Return(i, Error("ErrOrderExpired", "order expiration %s <= block time %s"))
     ELSE Goto(i, "contractPrice")
  /\ UNCHANGED <<order, derivativeMarket, currBlockTime, call, ret, orders>>

\* if margin.Cmp(contractPriceMarginRequirement) < 0 { return ErrOverLeveragedOrder }
StepContractPrice(i) ==
  /\ validation[i].pc = "contractPrice"
  /\ IF IsBelowContractPriceMargin(BigNumInt(orders[i].MakerFee),
                                   ComputeContractPriceMarginRequirement(orders[i], derivativeMarket))
     THEN Return(i, Error("ErrOverLeveragedOrder", "margin %s < contractPriceMarginRequirement %s"))
     ELSE Goto(i, "indexPrice")
  /\ UNCHANGED <<order, derivativeMarket, currBlockTime, call, ret, orders>>

\* indexPriceMarginRequirement := order.ComputeIndexPriceMarginRequirement(isLong, market)
StepIndexPrice(i) ==
  /\ validation[i].pc = "indexPrice"
  /\ LET r == ComputeIndexPriceMarginRequirement(orders[i], validation[i].isLong, derivativeMarket)
     IN  IF r.ret.kind = "panic"
         THEN Return(i, r.ret) /\ UNCHANGED orders
         ELSE /\ validation' = [validation EXCEPT ![i] =
                   [@ EXCEPT !.pc = "compare", !.indexPriceMarginRequirement = r.ret.val]]
              /\ orders' = Store(orders, i, r.order)
  /\ UNCHANGED <<order, derivativeMarket, currBlockTime, call, ret>>

\* the comparison of the index price with the requirement, and return nil
StepCompare(i) ==
  /\ validation[i].pc = "compare"
  /\ LET marketIndexPrice == BigNumInt(derivativeMarket.IndexPrice)
         requirement == validation[i].indexPriceMarginRequirement
     IN  IF IsLongOverLeveraged(validation[i].isLong, marketIndexPrice, requirement)
         THEN Return(i, Error("ErrOverLeveragedOrder", "indexPrice %s <= indexPriceReq %s"))
         ELSE IF IsShortOverLeveraged(validation[i].isLong, marketIndexPrice, requirement)
         THEN Return(i, Error("ErrOverLeveragedOrder", "indexPrice %s >= indexPriceReq %s"))
         ELSE Return(i, Nil)
  /\ UNCHANGED <<order, derivativeMarket, currBlockTime, call, ret, orders>>

InterleaveNext ==
  \E i \in Instances :
    \/ Begin(i)
    \/ StepOrderType(i)
    \/ StepExpiry(i)
    \/ StepContractPrice(i)
    \/ StepIndexPrice(i)
    \/ StepCompare(i)

InterleaveSpec == InterleaveInit /\ [][InterleaveNext]_vars

(* C16: two validations of distinct Order instances against one market      *)
(* snapshot, interleaved step by step, give each order the verdict and the  *)
(* memoized orderType and indexPriceRequirement of its validation run alone *)
(* (so of the two run one after the other), and a step of one validation    *)
(* writes no field of the other order nor of the market snapshot.           *)
Alone(i) ==
  DoesValidationPass(Unvalidated(orders[i]), validation[i].isLong, derivativeMarket,
                     currBlockTime, <<>>)

Finished(i) == validation[i].pc = "done"

SameAsAlone ==
  \A i \in Instances :
    Finished(i) =>
      /\ validation[i].err = Alone(i).ret
      /\ Memo(orders[i]) = Memo(Alone(i).order)

WritesOwnOrderOnly ==
  /\ derivativeMarket' = derivativeMarket
  /\ \A i \in Instances : validation'[i] = validation[i] => orders'[i] = orders[i]

C16_InterleavingIsSequential == []SameAsAlone /\ [][WritesOwnOrderOnly]_vars

\* validation 2 began while validation 1 was under way; both ended, one
\* accepted and one rejected, each order carrying its own requirement
C16_Witness ==
  /\ Finished(1) /\ Finished(2)
  /\ validation[2].overlap
  /\ validation[1].err = Nil
  /\ validation[2].err.kind = "error" /\ validation[2].err.err = "ErrOverLeveragedOrder"
  /\ orders[1].IndexPriceRequirement # <<>>
  /\ orders[2].IndexPriceRequirement # <<>>
  /\ orders[1].IndexPriceRequirement # orders[2].IndexPriceRequirement

-----------------------------------------------------------------------------
(* go-ethereum common/math and the conversion to a zeroex.SignedOrder *)

\* the decimal digits of 2^256
Two256 ==
  <<"1", "1", "5", "7", "9", "2", "0", "8", "9", "2", "3", "7", "3", "1",
  "6", "1", "9", "5", "4", "2", "3", "5", "7", "0", "9", "8", "5", "0", "0",
  "8", "6", "8", "7", "9", "0", "7", "8", "5", "3", "2", "6", "9", "9", "8",
  "4", "6", "6", "5", "6", "4", "0", "5", "6", "4", "0", "3", "9", "4", "5",
  "7", "5", "8", "4", "0", "0", "7", "9", "1", "3", "1", "2", "9", "6", "3",
  "9", "9", "3", "6">>

\* the digits of a numeral without its leading zeros
StripZeros(d) ==
  LET nz == {i \in 1..Len(d) : d[i] # "0"}
  IN  IF nz = {} THEN <<>> ELSE SubSeq(d, CHOOSE i \in nz : \A j \in nz : i <= j, Len(d))

\* the decimal numeral a is at least the decimal numeral b (no leading zeros)
DigitsGeq(a, b) ==
  IF Len(a) # Len(b) THEN Len(a) > Len(b)
  ELSE LET diff == {i \in 1..Len(a) : a[i] # b[i]}
       IN  \/ diff = {}
           \/ LET k == CHOOSE i \in diff : \A j \in diff : i <= j
              IN  DecValue[a[k]] > DecValue[b[k]]

\* bigint.BitLen() > 256 for the magnitude written by the digits d in the base
ExceedsBig256(d, base) ==
  IF base = 10 THEN DigitsGeq(StripZeros(d), Two256) ELSE Len(StripZeros(d)) > 64

RECURSIVE DigitsValueIn(_, _, _)
DigitsValueIn(d, n, base) ==
  IF n = 0 THEN 0 ELSE base * DigitsValueIn(d, n - 1, base) + HexValue[d[n]]

\* big.Int.SetString(s, base) for base 10 and 16: an optional sign, then at
\* least one digit of the base and nothing else; `big256` is whether the value
\* fits 256 bits, the value itself is kept for magnitudes that do
SetString(s, base) ==
  LET signed == Len(s) > 0 /\ s[1] \in {"+", "-"}
      d == IF signed THEN Tail(s) ELSE s
      digit(c) == IF base = 10 THEN IsDecDigit(c) ELSE IsHexChar(c)
  IN  IF Len(d) = 0 \/ \E i \in 1..Len(d) : ~digit(d[i])
      THEN [ok |-> FALSE, big256 |-> FALSE, val |-> 0]
      ELSE IF ExceedsBig256(d, base)
      THEN [ok |-> TRUE, big256 |-> FALSE, val |-> 0]
      ELSE [ok |-> TRUE, big256 |-> TRUE,
            val |-> IF signed /\ s[1] = "-" THEN 0 - DigitsValueIn(d, Len(d), base)
                    ELSE DigitsValueIn(d, Len(d), base)]

\* math.ParseBig256: the empty string is zero; a 0x or 0X prefix selects base
\* 16; a value of more than 256 bits is refused
ParseBig256(s) ==
  IF s = <<>> THEN [ok |-> TRUE, val |-> 0]
  ELSE LET parsed == IF has0xPrefix(s) THEN SetString(SubSeq(s, 3, Len(s)), 16)
                     ELSE SetString(s, 10)
       IN  IF parsed.ok /\ parsed.big256 THEN [ok |-> TRUE, val |-> parsed.val]
           ELSE [ok |-> FALSE, val |-> 0]

\* a nil *BaseOrder
NilOrder == [kind |-> "nil"]

SignedOrder(o) == [kind |-> "signedOrder", order |-> o]

\* the Amount fields in the order so2zo parses them, and its error texts
AmountFields ==
  <<"MakerAssetAmount", "MakerFee", "TakerAssetAmount", "TakerFee", "ExpirationTimeSeconds", "Salt">>

ParseFailed ==
  <<"makerAssetAmmount parse failed", "makerFee parse failed", "takerAssetAmmount parse failed",
    "takerFee parse failed", "expirationTimeSeconds parse failed", "salt parse failed">>

\* so2zo: nil for a nil order; the error of the first Amount field ParseBig256
\* refuses; else the signed order with the parsed amounts and decoded data
so2zo(o) ==
  IF o = NilOrder THEN Nil
  ELSE LET refused == {i \in 1..Len(AmountFields) : ~ParseBig256(o[AmountFields[i]]).ok}
       IN  IF refused # {}
           THEN Error("errors.New", ParseFailed[CHOOSE i \in refused : \A j \in refused : i <= j])
           ELSE SignedOrder(
                  [ MakerAddress |-> HexToAddress(o.MakerAddress),
                    MakerAssetData |-> FromHex(o.MakerAssetData),
                    MakerFeeAssetData |-> FromHex(o.MakerFeeAssetData),
                    TakerAssetData |-> FromHex(o.TakerAssetData),
                    MakerAssetAmount |-> ParseBig256(o.MakerAssetAmount).val,
                    MakerFee |-> ParseBig256(o.MakerFee).val,
                    TakerAssetAmount |-> ParseBig256(o.TakerAssetAmount).val,
                    TakerFee |-> ParseBig256(o.TakerFee).val,
                    ExpirationTimeSeconds |-> ParseBig256(o.ExpirationTimeSeconds).val,
                    Salt |-> ParseBig256(o.Salt).val,
                    Signature |-> FromHex(o.Signature) ])

\* ToSignedOrder: so2zo, its error turned into a panic
ToSignedOrder(o) ==
  LET r == so2zo(o)
  IN  IF r.kind = "error" THEN Panic(r.format) ELSE r

-----------------------------------------------------------------------------
(* Stateless checks of the order messages *)

\* the generated getter: the empty string on a nil order
GetTakerAssetAmount(o) == IF o = NilOrder THEN <<>> ELSE o.TakerAssetAmount

\* BigNum(s).Int() on any string: the value of a decimal numeral, zero for the
\* empty string, nil for anything else
BigNumIntOf(s) ==
  IF s = <<>> THEN [nil |-> FALSE, val |-> 0]
  ELSE IF SetString(s, 10).ok THEN [nil |-> FALSE, val |-> BigNumInt(s)]
  ELSE [nil |-> TRUE, val |-> 0]

\* MsgCreateSpotOrder.ValidateBasic; hashErr is whether ComputeOrderHash
\* returns an error
MsgCreateSpotOrderValidateBasic(msg, hashErr) ==
  IF msg.Sender = <<>> THEN Error("ErrInvalidAddress", "")
  ELSE LET takerQuantity == BigNumIntOf(GetTakerAssetAmount(msg.Order))
           signedOrder == ToSignedOrder(msg.Order)
           valid == isValidSignature(msg.Order.Signature)
       IN  IF msg.Order = NilOrder
           THEN Error("ErrUnknownRequest", "no make order specified")
           ELSE IF signedOrder.kind = "panic" THEN signedOrder
           ELSE IF hashErr THEN Error("ErrUnknownRequest", "hash check failed: %v")
           ELSE IF valid.kind = "panic" THEN valid
           ELSE IF ~valid.ok THEN Error("ErrUnknownRequest", "invalid signature")
           ELSE IF takerQuantity.nil \/ takerQuantity.val <= 0
           THEN Error("ErrInsufficientOrderQuantity", "insufficient quantity")
           ELSE Nil

\* MsgCreateDerivativeOrder.ValidateBasic
MsgCreateDerivativeOrderValidateBasic(msg, hashErr) ==
  IF msg.Sender = <<>> THEN Error("ErrInvalidAddress", "")
  ELSE LET signedOrder == ToSignedOrder(msg.Order)
           valid == isValidSignature(msg.Order.Signature)
       IN  IF msg.Order = NilOrder
           THEN Error("ErrUnknownRequest", "no make order specified")
           ELSE IF signedOrder.kind = "panic" THEN signedOrder
           ELSE IF hashErr THEN Error("ErrUnknownRequest", "hash check failed: %v")
           ELSE IF valid.kind = "panic" THEN valid
           ELSE IF ~valid.ok THEN Error("ErrUnknownRequest", "invalid signature")
           ELSE Nil

-----------------------------------------------------------------------------
(* The messages: an order as a client sends it, its Amount fields any       *)
(* strings, and the calls made on it.                                       *)

Ten == <<"1", "0">>

\* 10^78, an integer of more than 256 bits
Big79 == <<"1">> \o SubSeq([i \in 1..78 |-> "0"], 1, 78)

AmountStrings ==
  { Ten, <<>>, <<"a", "b", "c">>, <<"-", "5">>, <<"0">>, <<"1", ".", "5">>,
    <<"0", "x", "1", "0">>, <<"0", "x">>, <<"-">>, Big79, Two256 }

NewBaseOrder(amounts, sig) ==
  [ MakerAddress |-> <<"0", "x", "0", "1">>,
    MakerAssetAmount |-> amounts[1],
    MakerFee |-> amounts[2],
    TakerAssetAmount |-> amounts[3],
    TakerFee |-> amounts[4],
    ExpirationTimeSeconds |-> amounts[5],
    Salt |-> amounts[6],
    MakerAssetData |-> <<"0", "x">>,
    TakerAssetData |-> <<"0", "x">>,
    MakerFeeAssetData |-> <<"0", "x">>,
    Signature |-> sig ]

AllTen == [i \in 1..6 |-> Ten]

MessageSignatures ==
  { DefaultSignature, <<"0", "x">>, <<>>, SignatureOf(1, IllegalSignature),
    SignatureOf(66, EIP712Signature), SignatureOf(65, EIP712Signature) }

MessageOrders ==
  \* one Amount field of any content
  { NewBaseOrder([AllTen EXCEPT ![i] = s], DefaultSignature) : i \in 1..6, s \in AmountStrings }
  \cup
  \* any set of fields unparsable at once
  { NewBaseOrder([i \in 1..6 |-> IF i \in bad THEN <<"a", "b", "c">> ELSE Ten], DefaultSignature) :
      bad \in SUBSET (1..6) }
  \cup
  \* signatures and quantities
  { NewBaseOrder([AllTen EXCEPT ![3] = q], sig) :
      q \in {Ten, <<"0">>, <<"-", "5">>, <<>>}, sig \in MessageSignatures }
  \cup
  { NilOrder }

SenderSet == { <<>>, <<"i", "n", "j", "1">> }

MessageInit ==
  /\ order \in MessageOrders
  /\ derivativeMarket = DefaultMarket
  /\ currBlockTime = 0
  /\ call = [op |-> "none"]
  /\ ret = [kind |-> "none"]
  /\ orders = <<>>
  /\ validation = <<>>

CallSo2zo ==
  /\ ret' = so2zo(order)
  /\ call' = [op |-> "so2zo"]
  /\ UNCHANGED <<order, derivativeMarket, currBlockTime, orders, validation>>

CallToSignedOrder ==
  /\ ret' = ToSignedOrder(order)
  /\ call' = [op |-> "ToSignedOrder"]
  /\ UNCHANGED <<order, derivativeMarket, currBlockTime, orders, validation>>

CallIsValidSignatureOfOrder ==
  /\ order # NilOrder
  /\ ret' = isValidSignature(order.Signature)
  /\ call' = [op |-> "isValidSignature"]
  /\ UNCHANGED <<order, derivativeMarket, currBlockTime, orders, validation>>

CallSpotValidateBasic ==
  \E sender \in SenderSet, hashErr \in BOOLEAN :
    /\ ret' = MsgCreateSpotOrderValidateBasic([Sender |-> sender, Order |-> order], hashErr)
    /\ call' = [op |-> "MsgCreateSpotOrder.ValidateBasic", sender |-> sender, hashErr |-> hashErr]
    /\ UNCHANGED <<order, derivativeMarket, currBlockTime, orders, validation>>

CallDerivativeValidateBasic ==
  \E sender \in SenderSet, hashErr \in BOOLEAN :
    /\ ret' = MsgCreateDerivativeOrderValidateBasic([Sender |-> sender, Order |-> order], hashErr)
    /\ call' = [op |-> "MsgCreateDerivativeOrder.ValidateBasic", sender |-> sender, hashErr |-> hashErr]
    /\ UNCHANGED <<order, derivativeMarket, currBlockTime, orders, validation>>

MessageNext ==
  \/ CallSo2zo
  \/ CallToSignedOrder
  \/ CallIsValidSignatureOfOrder
  \/ CallSpotValidateBasic
  \/ CallDerivativeValidateBasic

MessageSpec == MessageInit /\ [][MessageNext]_vars

(* C17: so2zo returns a parse-failure error naming the first Amount field,  *)
(* in the order makerAssetAmount, makerFee, takerAssetAmount, takerFee,     *)
(* expirationTimeSeconds, salt, that is not an integer numeral; it returns  *)
(* a signed order only when all six are; the empty string is not a numeral  *)
(* and is never taken for zero.                                             *)

\* a numeral: a sign or none, then digits; decimal, or hexadecimal after 0x;
\* of at most 256 bits
IsNumeral(s) ==
  /\ s # <<>>
  /\ LET n == IF has0xPrefix(s) THEN SetString(SubSeq(s, 3, Len(s)), 16) ELSE SetString(s, 10)
     IN  n.ok /\ n.big256

NotNumerals == {i \in 1..Len(AmountFields) : ~IsNumeral(order[AmountFields[i]])}

C17_ParseFailureNamesFirstField ==
  (call.op = "so2zo" /\ order # NilOrder) =>
    IF NotNumerals # {}
    THEN /\ ret.kind = "error"
         /\ ret.format = ParseFailed[CHOOSE i \in NotNumerals : \A j \in NotNumerals : i <= j]
    ELSE ret.kind = "signedOrder"

-----------------------------------------------------------------------------
(* C18: when DoesValidationPass rejects an order, for any reason, the       *)
(* order's orderType and indexPriceRequirement hold the values they held    *)
(* before the call.                                                         *)
C18_RejectionLeavesMemo ==
  (AfterValidation /\ ret.kind = "error") => Memo(order) = call.before

(* C19: isValidSignature returns false, without a fault, for a signature    *)
(* that decodes to zero bytes, and the derivative and the spot              *)
(* ValidateBasic that reach the signature check of such an order return the *)
(* 'invalid signature' error.                                               *)
AfterValidateBasic ==
  call.op \in {"MsgCreateSpotOrder.ValidateBasic", "MsgCreateDerivativeOrder.ValidateBasic"}

\* the checks before the signature check have passed
ReachesSignatureCheck ==
  /\ call.sender # <<>>
  /\ order # NilOrder
  /\ so2zo(order).kind = "signedOrder"
  /\ ~call.hashErr

C19_EmptySignatureIsRejected ==
  (order # NilOrder /\ Len(FromHex(order.Signature)) = 0) =>
    /\ call.op = "isValidSignature" => ret = Bool(FALSE)
    /\ (AfterValidateBasic /\ ReachesSignatureCheck) =>
         ret = Error("ErrUnknownRequest", "invalid signature")

(* C20: MsgCreateSpotOrder.ValidateBasic reports, as an error value, the    *)
(* first failure in the order empty sender (InvalidAddress), missing order, *)
(* order-hash computation failure, invalid signature, and                   *)
(* InsufficientQuantity exactly when takerAssetAmount is absent or <= 0; a  *)
(* nil order with a sender gives the missing-order error; a message passing *)
(* all five checks gives nil.                                               *)
SignatureAccepted == Len(signatureBytes) > 0 /\ SignatureTable

\* takerAssetAmount is absent, or a decimal numeral
QuantityIsDecimal == order.TakerAssetAmount = <<>> \/ SetString(order.TakerAssetAmount, 10).ok

QuantityInsufficient == order.TakerAssetAmount = <<>> \/ BigNumInt(order.TakerAssetAmount) <= 0

C20_SpotValidateBasicOrder ==
  call.op = "MsgCreateSpotOrder.ValidateBasic" =>
    /\ ret.kind \in {"nil", "error"}
    /\ call.sender = <<>> => ret = Error("ErrInvalidAddress", "")
    /\ (call.sender # <<>> /\ order = NilOrder) =>
         ret = Error("ErrUnknownRequest", "no make order specified")
    /\ (call.sender # <<>> /\ order # NilOrder /\ so2zo(order).kind = "signedOrder"
        /\ QuantityIsDecimal) =>
         ret = IF call.hashErr THEN Error("ErrUnknownRequest", "hash check failed: %v")
               ELSE IF ~SignatureAccepted THEN Error("ErrUnknownRequest", "invalid signature")
               ELSE IF QuantityInsufficient
               THEN Error("ErrInsufficientOrderQuantity", "insufficient quantity")
               ELSE Nil

====
